---- MODULE Spec2Model ----
(***************************************************************************)
(* CommandExecutor.execute_quick_task (core/executor.py) together with the *)
(* conversation history of LLMClient (core/llm_client.py), as a state      *)
(* machine.  One run of execute_quick_task is one behaviour: the model     *)
(* backend, the diagnostic tools, the user at the prompt and the           *)
(* subprocesses are the environment, whose answers the actions draw from   *)
(* small sets.                                                             *)
(***************************************************************************)
EXTENDS Integers, Sequences, FiniteSets, TLC

(***************************************************************************)
(* Bounds of the model.                                                    *)
(***************************************************************************)
\* longest command list of a plan
MaxCmds == 3
\* most tool call requests carried by one response
MaxCalls == 2
\* longest text handed to the parser, in chunks (SpecParse)
MaxChunks == 5

(***************************************************************************)
(* Program constants.                                                      *)
(***************************************************************************)
max_iterations == 10

TOOL_FUNCTIONS ==
  { "get_man_page", "get_command_help", "get_file_tree", "check_file_exists",
    "read_config_file", "check_port_in_use", "get_disk_space",
    "check_write_permission" }

(***************************************************************************)
(* JSON values and texts.  A text is a sequence of chunks: a chunk is the   *)
(* serialisation of one JSON value, a piece of prose that is no JSON, a    *)
(* run of whitespace, or a code fence (three backticks, with or without   *)
(* the label json).  No chunk but a fence holds backticks.                 *)
(***************************************************************************)
None == [type |-> "none"]
Malformed == [type |-> "malformed"]
JObject(fields) == [type |-> "object", val |-> fields]
JList(items) == [type |-> "list", val |-> items]
\* a string value is kept as the sequence of its words
JString(words) == [type |-> "string", val |-> words]
JNumber(n) == [type |-> "number", val |-> n]

FenceJson == [type |-> "fence", label |-> "json"]
Fence == [type |-> "fence", label |-> ""]
Space == [type |-> "space"]

\* json.loads of a single chunk: the value, or an exception
json_loads(text) ==
  IF text.type \in {"malformed", "fence", "space"}
    THEN [raised |-> TRUE]
    ELSE [raised |-> FALSE, value |-> text]

IsNotSpace(chunk) == chunk.type # "space"

\* json.loads of a text: whitespace around the value is skipped; an empty
\* text, prose, or anything after the value is an exception
json_loads_text(chunks) ==
  LET core == SelectSeq(chunks, IsNotSpace)
  IN  IF Len(core) = 1 THEN json_loads(core[1]) ELSE [raised |-> TRUE]

\* json.dumps(value): the text that is stored as a turn's content
json_dumps(value) == [kind |-> "text", body |-> value]

\* Python truthiness of a parsed result: None, {}, [], "" and 0 are falsy
Truthy(v) ==
  CASE v.type = "object" -> DOMAIN v.val # {}
    [] v.type \in {"list", "string"} -> v.val # <<>>
    [] v.type = "number" -> v.val # 0
    [] OTHER -> FALSE

\* key in result: a key of a dict, an item of a list, a part of a string
HasKey(v, key) ==
  CASE v.type = "object" -> key \in DOMAIN v.val
    [] v.type \in {"list", "string"} -> \E j \in 1..Len(v.val) : v.val[j] = key
    [] OTHER -> FALSE

\* result.get(key, default)
Get(v, key, default) == IF key \in DOMAIN v.val THEN v.val[key] ELSE default

EmptyContent == [kind |-> "empty"]
\* the text that holds nothing but the chunk `body`
Text(body) == [kind |-> "text", body |-> <<body>>]

\* if message.content: an empty or absent content is falsy
HasContent(content) == content.kind # "empty"

\* marker in content, for the two markers: the opening fence labelled
\* json, and the bare fence (which is also the head of the labelled one)
HasMarker(chunks, marker) ==
  \E j \in 1..Len(chunks) :
    /\ chunks[j].type = "fence"
    /\ marker = FenceJson => chunks[j].label = "json"

\* content.split(marker), cur being the piece that is being collected;
\* splitting at the bare fence leaves the label of a labelled one behind
RECURSIVE SplitFrom(_, _, _)
SplitFrom(chunks, marker, cur) ==
  IF chunks = <<>>
    THEN <<cur>>
    ELSE LET c == Head(chunks)
         IN  IF c.type = "fence" /\ (marker = FenceJson => c.label = "json")
               THEN <<cur>> \o SplitFrom(Tail(chunks), marker,
                                 IF marker = Fence /\ c.label = "json"
                                   THEN <<Malformed>> ELSE <<>>)
               ELSE SplitFrom(Tail(chunks), marker, Append(cur, c))

split(chunks, marker) == SplitFrom(chunks, marker, <<>>)

RECURSIVE lstrip(_)
lstrip(chunks) ==
  IF chunks # <<>> /\ Head(chunks).type = "space"
    THEN lstrip(Tail(chunks)) ELSE chunks

RECURSIVE rstrip(_)
rstrip(chunks) ==
  IF chunks # <<>> /\ chunks[Len(chunks)].type = "space"
    THEN rstrip(SubSeq(chunks, 1, Len(chunks) - 1)) ELSE chunks

\* str.strip()
strip(chunks) == rstrip(lstrip(chunks))

\* the text that is handed to json.loads: what follows the first fence
\* labelled json up to the next fence; without a labelled fence, what
\* lies between the first and the second fence; without any fence, the
\* whole content
Candidate(chunks) ==
  IF HasMarker(chunks, FenceJson)
    THEN strip(split(split(chunks, FenceJson)[2], Fence)[1])
    ELSE IF HasMarker(chunks, Fence)
      THEN strip(split(split(chunks, Fence)[2], Fence)[1])
      ELSE chunks

\* the value that stands for an exception leaving a function
Raised == [type |-> "raised"]

\* the try block without its except clause
ParseUncaught(content) ==
  LET r == json_loads_text(Candidate(content.body))
  IN  IF r.raised THEN Raised ELSE r.value

\* CommandExecutor._parse_llm_response: the candidate goes through
\* json.loads, and any exception yields None
_parse_llm_response(content) ==
  LET r == json_loads_text(Candidate(content.body))
  IN  IF r.raised THEN None ELSE r.value

\* result = self._parse_llm_response(...); if result and "commands" in
\* result: neither line is inside a try statement, so an exception of the
\* parser, or of the test (an int is no container), leaves the run
PlanTest(v) ==
  IF v.type = "raised" THEN "raises"
  ELSE IF ~Truthy(v) THEN "answer"
  ELSE IF v.type = "number" THEN "raises"
  ELSE IF HasKey(v, "commands") THEN "plan"
  ELSE "answer"

(***************************************************************************)
(* Collaborators outside core/: the safety validator, the shell command    *)
(* builder and the diagnostic tools.                                       *)
(***************************************************************************)
Commands == {"ls -la", "df -h", "rm -rf /"}
DenyList == {"rm -rf /"}

validate_command_safety(cmd) ==
  [safe |-> cmd \notin DenyList,
   reason |-> IF cmd \in DenyList THEN "destructive command" ELSE ""]

build_shell_command(cmd) == <<"/bin/bash", "-c", cmd>>

ArgsOk == JObject([path |-> "/"])
ArgsFailing == JObject([path |-> "/missing"])

\* TOOL_FUNCTIONS[function_name](**arguments): a result mapping, or an exception
CallTool(name, arguments) ==
  IF arguments.val.path = "/missing"
    THEN [raised |-> TRUE, error |-> "No such file or directory"]
    ELSE [raised |-> FALSE, value |-> JObject([tool |-> name, ok |-> TRUE])]

(***************************************************************************)
(* LLMClient: the conversation history.                                    *)
(***************************************************************************)
UserTurn(user_message) == [role |-> "user", content |-> user_message]

AssistantTurn(assistant_message) ==
  [role |-> "assistant",
   content |-> assistant_message.content,
   tool_calls |-> assistant_message.tool_calls]

\* the reply recorded ahead of the message it answers
chatReplyFirst(history, user_message, assistant_message) ==
  history \o <<AssistantTurn(assistant_message), UserTurn(user_message)>>

\* LLMClient.chat, the backend having answered: the user message, then the
\* assistant reply, are appended
chat(history, user_message, assistant_message) ==
  history \o <<UserTurn(user_message), AssistantTurn(assistant_message)>>

\* a tool result written over the last turn
add_tool_responseOverLast(history, tool_call_id, function_name, result) ==
  [history EXCEPT ![Len(history)] =
     [role |-> "tool", tool_call_id |-> tool_call_id,
      name |-> function_name, content |-> json_dumps(result)]]

\* LLMClient.add_tool_response
add_tool_response(history, tool_call_id, function_name, result) ==
  Append(history,
         [role |-> "tool", tool_call_id |-> tool_call_id,
          name |-> function_name, content |-> json_dumps(result)])

\* LLMClient.reset_conversation
reset_conversation(history) == <<>>

(***************************************************************************)
(* State.                                                                  *)
(***************************************************************************)
VARIABLES
  auto_confirm,          \* parameter of execute_quick_task
  dry_run,               \* parameter of execute_quick_task
  pc,                    \* position in execute_quick_task
  iteration,             \* the loop counter
  conversation_history,  \* LLMClient.conversation_history
  message,               \* response.choices[0].message of the current round
  k,                     \* _handle_tool_calls: index of the tool call at hand
  result,                \* the parsed final response
  i,                     \* _execute_commands: index of the command at hand
  status,                \* how the run ended ("running" until it has)
  llm_calls,             \* calls made to the model backend
  llm_errors,            \* calls to the model backend that raised
  sent,                  \* the user messages handed to LLMClient.chat, in order
  tool_runs,             \* ids of the requests whose tool function was invoked
  unknown_reports,       \* ids of the requests reported as unknown tools
  rendered,              \* the plan was printed
  validator_calls,       \* calls made to validate_command_safety
  prompts,               \* confirmation prompts shown
  answer,                \* the user's answer to the prompt
  executed,              \* argument vectors handed to subprocess.run, in order
  reports                \* the outcome printed for each of them

params == <<auto_confirm, dry_run>>
loopVars == <<iteration, conversation_history, message, llm_calls, llm_errors, sent>>
toolVars == <<k, tool_runs, unknown_reports>>
execVars == <<i, rendered, validator_calls, prompts, answer, executed, reports>>
vars == <<params, pc, status, result, loopVars, toolVars, execVars>>

NoMessage == [tool_calls |-> <<>>, content |-> EmptyContent]
NoAnswer == "(none)"

Init ==
  /\ auto_confirm \in BOOLEAN
  /\ dry_run \in BOOLEAN
  /\ pc = "chat"
  /\ iteration = 0
  /\ conversation_history = <<>>
  /\ message = NoMessage
  /\ k = 0
  /\ result = None
  /\ i = 0
  /\ status = "running"
  /\ llm_calls = 0
  /\ llm_errors = 0
  /\ sent = <<>>
  /\ tool_runs = <<>>
  /\ unknown_reports = <<>>
  /\ rendered = FALSE
  /\ validator_calls = 0
  /\ prompts = 0
  /\ answer = NoAnswer
  /\ executed = <<>>
  /\ reports = <<>>

(***************************************************************************)
(* What the model backend may answer.                                      *)
(***************************************************************************)
SeqsUpTo(S, lo, hi) == UNION {[1..n -> S] : n \in lo..hi}

CmdLists == SeqsUpTo(Commands, 0, MaxCmds)

PlanObjects ==
  {[commands |-> c] : c \in CmdLists}
    \cup {[commands |-> c, requires_confirmation |-> b] :
            c \in CmdLists, b \in BOOLEAN}

Prose == Text(Malformed)
NoPlanAnswer == Text(JObject([explanation |-> "nothing to run"]))

Final(content) == [tool_calls |-> <<>>, content |-> content]

\* final answers that are JSON but no object
OtherAnswers ==
  { Final(Text(JList(<<"commands">>))), Final(Text(JList(<<"ls -la">>))),
    Final(Text(JString(<<"no", "commands", "needed">>))),
    Final(Text(JNumber(42))), Final(Text(JNumber(0))) }

ToolRequests ==
  { [name |-> "get_disk_space", arguments |-> ArgsOk],
    [name |-> "read_config_file", arguments |-> ArgsFailing],
    [name |-> "run_shell", arguments |-> ArgsOk],
    [name |-> "get_file_tree", arguments |-> Malformed],
    [name |-> "run_shell", arguments |-> Malformed] }

\* the requests of a response of round r, each with its correlation id
WithIds(shape, r) ==
  [j \in 1..Len(shape) |->
     [id |-> <<r, j>>, name |-> shape[j].name, arguments |-> shape[j].arguments]]

ShapeOf(m) ==
  [tool_calls |-> [j \in 1..Len(m.tool_calls) |->
                     [name |-> m.tool_calls[j].name,
                      arguments |-> m.tool_calls[j].arguments]],
   content |-> m.content]

ToolResponses(r) ==
  {[tool_calls |-> WithIds(s, r), content |-> c] :
     s \in SeqsUpTo(ToolRequests, 1, MaxCalls),
     c \in {EmptyContent, Prose, Text(JObject([commands |-> <<"ls -la">>]))}}

\* a backend that proposes plans: at most one plain tool call per round,
\* then any plan or answer
PlanBackend(r) ==
  {[tool_calls |-> WithIds(<<[name |-> "get_disk_space", arguments |-> ArgsOk]>>, r),
    content |-> EmptyContent]}
    \cup {Final(Text(JObject(p))) : p \in PlanObjects}
    \cup {Final(Prose), Final(NoPlanAnswer)}
    \cup OtherAnswers

\* a backend that uses tools: in its first round any tool calls or an empty
\* response, in a later round the same requests again (under new ids); in
\* any round it may instead end the run with a short plan or an answer
ToolBackend(r) ==
  {m \in ToolResponses(r) \cup {Final(EmptyContent)} :
     r > 1 => ShapeOf(m) = ShapeOf(message)}
    \cup {Final(Text(JObject([commands |-> <<cmd>>]))) : cmd \in Commands}
    \cup {Final(Prose), Final(NoPlanAnswer)}

(***************************************************************************)
(* execute_quick_task: the loop.                                           *)
(***************************************************************************)
Context == [kind |-> "context"]
Continue == [kind |-> "continue"]

\* the task sent again in every round
UserMessageTaskAgain(it) == Context

\* context if iteration == 1 else "Continue with the task."
UserMessage(it) == IF it = 1 THEN Context ELSE Continue

\* a loop that admits one round more
LoopGuardOffByOne(it) == it <= max_iterations

\* while iteration < self.max_iterations
LoopGuard(it) == it < max_iterations

\* a loop that swallows the transport error and tries again
AfterChatErrorRetry == [pc |-> "chat", status |-> "running"]

\* except Exception as e: print(...); return
AfterChatError == [pc |-> "done", status |-> "llm_error"]

Stop(how) == pc' = "done" /\ status' = how

\* one round: the model call, and what the response leads to
LLMRound(responses) ==
  /\ pc = "chat"
  /\ LoopGuard(iteration)
  /\ iteration' = iteration + 1
  /\ llm_calls' = llm_calls + 1
  /\ sent' = Append(sent, UserMessage(iteration'))
  /\ \/ /\ llm_errors' = llm_errors + 1
        /\ pc' = AfterChatError.pc
        /\ status' = AfterChatError.status
        /\ UNCHANGED <<conversation_history, message, k, result>>
     \/ \E m \in responses :
          /\ conversation_history' =
               chat(conversation_history, UserMessage(iteration'), m)
          /\ message' = m
          /\ UNCHANGED llm_errors
          /\ IF m.tool_calls # <<>>
               THEN pc' = "tools" /\ k' = 1 /\ UNCHANGED <<status, result>>
               ELSE IF HasContent(m.content)
                 THEN /\ result' = _parse_llm_response(m.content)
                      /\ UNCHANGED k
                      /\ CASE PlanTest(result') = "plan" ->
                                  pc' = "execute" /\ UNCHANGED status
                             [] PlanTest(result') = "raises" -> Stop("raised")
                             [] OTHER -> Stop("answered")
                 ELSE UNCHANGED <<pc, status, k, result>>
  /\ UNCHANGED <<params, tool_runs, unknown_reports, execVars>>

ChatPlans == LLMRound(PlanBackend(iteration + 1))

ChatTools == LLMRound(ToolBackend(iteration + 1))

\* the loop ran out: "Maximum iterations reached"
MaxIterationsReached ==
  /\ pc = "chat"
  /\ ~LoopGuard(iteration)
  /\ Stop("max_iterations")
  /\ UNCHANGED <<params, result, loopVars, toolVars, execVars>>

(***************************************************************************)
(* _handle_tool_calls.                                                     *)
(***************************************************************************)
\* the loop body without its try statement: a tool's exception leaves it
DispatchUncaught(history, tool_call) ==
  LET arguments == json_loads(tool_call.arguments)
  IN  IF arguments.raised
        THEN [raised |-> TRUE, invoked |-> FALSE, unknown |-> FALSE,
              history |-> history]
        ELSE IF tool_call.name \in TOOL_FUNCTIONS
          THEN LET r == CallTool(tool_call.name, arguments.value)
               IN  [raised |-> r.raised, invoked |-> TRUE, unknown |-> FALSE,
                    history |->
                      IF r.raised
                        THEN history
                        ELSE add_tool_response(history, tool_call.id,
                               tool_call.name, r.value)]
          ELSE [raised |-> FALSE, invoked |-> FALSE, unknown |-> TRUE,
                history |-> history]

\* the body of the for loop for one tool call: whether an exception leaves
\* it, whether the tool function was invoked, whether the name was reported
\* as unknown, and the history afterwards
Dispatch(history, tool_call) ==
  LET arguments == json_loads(tool_call.arguments)
  IN  IF arguments.raised
        THEN [raised |-> TRUE, invoked |-> FALSE, unknown |-> FALSE,
              history |-> history]
        ELSE IF tool_call.name \in TOOL_FUNCTIONS
          THEN LET r == CallTool(tool_call.name, arguments.value)
               IN  [raised |-> FALSE, invoked |-> TRUE, unknown |-> FALSE,
                    history |->
                      IF r.raised
                        THEN add_tool_response(history, tool_call.id,
                               tool_call.name, JObject([error |-> r.error]))
                        ELSE add_tool_response(history, tool_call.id,
                               tool_call.name, r.value)]
          ELSE [raised |-> FALSE, invoked |-> FALSE, unknown |-> TRUE,
                history |-> history]

HandleToolCall ==
  /\ pc = "tools"
  /\ LET tool_call == message.tool_calls[k]
         d == Dispatch(conversation_history, tool_call)
     IN  /\ conversation_history' = d.history
         /\ tool_runs' = IF d.invoked THEN Append(tool_runs, tool_call.id)
                                      ELSE tool_runs
         /\ unknown_reports' = IF d.unknown
                                 THEN Append(unknown_reports, tool_call.id)
                                 ELSE unknown_reports
         /\ IF d.raised
              THEN Stop("raised") /\ UNCHANGED k
              ELSE IF k < Len(message.tool_calls)
                THEN k' = k + 1 /\ UNCHANGED <<pc, status>>
                ELSE pc' = "chat" /\ UNCHANGED <<k, status>>
  /\ UNCHANGED <<params, result, iteration, message, llm_calls, llm_errors,
                 sent, execVars>>

(***************************************************************************)
(* _execute_commands.                                                      *)
(***************************************************************************)
\* a default of False for the absent field
RequiresConfirmationOptIn(plan) == Get(plan, "requires_confirmation", FALSE)

\* result.get('requires_confirmation', True)
RequiresConfirmation(plan) == Get(plan, "requires_confirmation", TRUE)

\* result.get('commands', [])
CommandsOf(plan) == Get(plan, "commands", <<>>)

\* a safety loop that returns after looking at the first command only
FirstUnsafeHeadOnly(commands) ==
  IF commands # <<>> /\ ~validate_command_safety(commands[1]).safe THEN 1 ELSE 0

\* the position of the first command the validator rejects, 0 if none
FirstUnsafe(commands) ==
  LET bad == {j \in 1..Len(commands) : ~validate_command_safety(commands[j]).safe}
  IN  IF bad = {} THEN 0 ELSE CHOOSE j \in bad : \A h \in bad : j <= h

\* the confirmation reached without the safety loop
GateUnchecked(commands, dry) ==
  [verdict |-> IF dry THEN "dry_run" ELSE "proceed", validator_calls |-> 0]

\* the safety loop placed before the dry-run return
GateValidatingFirst(commands, dry) ==
  LET u == FirstUnsafe(commands)
  IN  IF u # 0
        THEN [verdict |-> "rejected", validator_calls |-> u]
        ELSE [verdict |-> IF dry THEN "dry_run" ELSE "proceed",
              validator_calls |-> Len(commands)]

\* the dry-run return and the safety loop: the verdict, and how many
\* commands went through the validator
Gate(commands, dry) ==
  IF dry
    THEN [verdict |-> "dry_run", validator_calls |-> 0]
    ELSE LET u == FirstUnsafe(commands)
         IN  IF u # 0
               THEN [verdict |-> "rejected", validator_calls |-> u]
               ELSE [verdict |-> "proceed", validator_calls |-> Len(commands)]

\* the plan is printed; a dry run stops here; otherwise every command is
\* validated before anything else happens
\* (a result that is no dict has no get: AttributeError on the first line)
ExecuteCommands ==
  /\ pc = "execute"
  /\ IF result.type # "object"
       THEN Stop("raised") /\ UNCHANGED <<rendered, validator_calls>>
       ELSE /\ rendered' = TRUE
            /\ LET g == Gate(CommandsOf(result), dry_run)
               IN  /\ validator_calls' = g.validator_calls
                   /\ IF g.verdict = "proceed"
                        THEN pc' = "confirm" /\ UNCHANGED status
                        ELSE Stop(g.verdict)
  /\ UNCHANGED <<params, result, loopVars, toolVars, i, prompts, answer,
                 executed, reports>>

Answers == {"y", "Y", "n", "yes", ""}

\* response.lower()
Lower(s) == IF s = "Y" THEN "y" ELSE s

\* a prompt that takes everything but a plain no for a yes
AffirmativeUnlessNo(a) == Lower(a) # "n"

\* not (response.lower() != 'y')
Affirmative(a) == Lower(a) = "y"

\* a prompt that ignores auto_confirm
NeedsPromptAlways(requires_confirmation, auto) == requires_confirmation

\* if requires_confirmation and not auto_confirm
NeedsPrompt(requires_confirmation, auto) == requires_confirmation /\ ~auto

StartRunning ==
  IF CommandsOf(result) = <<>>
    THEN Stop("executed") /\ UNCHANGED i
    ELSE pc' = "run" /\ i' = 1 /\ UNCHANGED status

AskConfirmation ==
  /\ pc = "confirm"
  /\ IF NeedsPrompt(RequiresConfirmation(result), auto_confirm)
       THEN \E a \in Answers :
              /\ prompts' = prompts + 1
              /\ answer' = a
              /\ IF Affirmative(a)
                   THEN StartRunning
                   ELSE Stop("cancelled") /\ UNCHANGED i
       ELSE StartRunning /\ UNCHANGED <<prompts, answer>>
  /\ UNCHANGED <<params, result, loopVars, toolVars, rendered, validator_calls,
                 executed, reports>>

\* what subprocess.run may do
ProcessBehaviours == {"exit 0", "exit 1", "TimeoutExpired", "OSError"}

\* the try statement without its last except clause
RunOutcomeTimeoutOnly(behaviour) ==
  [report |-> CASE behaviour = "exit 0" -> "success"
                [] behaviour = "exit 1" -> "exit code"
                [] behaviour = "TimeoutExpired" -> "timed out"
                [] OTHER -> "error",
   raised |-> behaviour = "OSError"]

\* the try statement around subprocess.run: what is printed, and whether
\* an exception leaves the loop body
RunOutcome(behaviour) ==
  [report |-> CASE behaviour = "exit 0" -> "success"
                [] behaviour = "exit 1" -> "exit code"
                [] behaviour = "TimeoutExpired" -> "timed out"
                [] OTHER -> "error",
   raised |-> FALSE]

RunCommand ==
  /\ pc = "run"
  /\ \E behaviour \in ProcessBehaviours :
       LET cmd == CommandsOf(result)[i]
           o == RunOutcome(behaviour)
       IN  /\ executed' = Append(executed, build_shell_command(cmd))
           /\ reports' = Append(reports, o.report)
           /\ IF o.raised
                THEN Stop("raised") /\ UNCHANGED i
                ELSE IF i < Len(CommandsOf(result))
                  THEN i' = i + 1 /\ UNCHANGED <<pc, status>>
                  ELSE Stop("executed") /\ UNCHANGED i
  /\ UNCHANGED <<params, result, loopVars, toolVars, rendered, validator_calls,
                 prompts, answer>>

(***************************************************************************)
(* Specifications.  Spec runs the executor against a backend that proposes *)
(* every plan of up to MaxCmds commands; SpecTools runs it against a       *)
(* backend that requests tools, up to MaxCalls requests per response.      *)
(***************************************************************************)
\* between two tasks on the same client: the conversation is reset and
\* execute_quick_task is entered again
ResetConversation ==
  /\ pc = "done"
  /\ conversation_history' = reset_conversation(conversation_history)
  /\ auto_confirm' \in BOOLEAN
  /\ dry_run' \in BOOLEAN
  /\ pc' = "chat"
  /\ iteration' = 0
  /\ message' = NoMessage
  /\ k' = 0
  /\ result' = None
  /\ i' = 0
  /\ status' = "running"
  /\ llm_calls' = 0
  /\ llm_errors' = 0
  /\ sent' = <<>>
  /\ tool_runs' = <<>>
  /\ unknown_reports' = <<>>
  /\ rendered' = FALSE
  /\ validator_calls' = 0
  /\ prompts' = 0
  /\ answer' = NoAnswer
  /\ executed' = <<>>
  /\ reports' = <<>>

Next ==
  \/ ChatPlans
  \/ MaxIterationsReached
  \/ HandleToolCall
  \/ ExecuteCommands
  \/ AskConfirmation
  \/ RunCommand
  \/ ResetConversation

Spec == Init /\ [][Next]_vars

NextTools ==
  \/ ChatTools
  \/ MaxIterationsReached
  \/ HandleToolCall
  \/ ExecuteCommands
  \/ AskConfirmation
  \/ RunCommand
  \/ ResetConversation

SpecTools == Init /\ [][NextTools]_vars

(***************************************************************************)
(* _parse_llm_response on its own: SpecParse hands it every text of up to  *)
(* MaxChunks chunks.                                                       *)
(***************************************************************************)
PlanChunk == JObject([commands |-> <<"ls -la">>, requires_confirmation |-> FALSE])
OtherChunk == JObject([commands |-> <<"df -h">>])

Chunks == {FenceJson, Fence, Space, Malformed, PlanChunk, OtherChunk}

Texts == SeqsUpTo(Chunks, 0, MaxChunks)

InitParse ==
  /\ auto_confirm = FALSE
  /\ dry_run = FALSE
  /\ pc = "parse"
  /\ iteration = 1
  /\ conversation_history = <<>>
  /\ message \in {Final([kind |-> "text", body |-> t]) : t \in Texts}
  /\ k = 0
  /\ result = None
  /\ i = 0
  /\ status = "running"
  /\ llm_calls = 1
  /\ llm_errors = 0
  /\ sent = <<Context>>
  /\ tool_runs = <<>>
  /\ unknown_reports = <<>>
  /\ rendered = FALSE
  /\ validator_calls = 0
  /\ prompts = 0
  /\ answer = NoAnswer
  /\ executed = <<>>
  /\ reports = <<>>

\* result = self._parse_llm_response(message.content)
ParseText ==
  /\ pc = "parse"
  /\ result' = _parse_llm_response(message.content)
  /\ status' = IF result'.type = "raised" THEN "raised" ELSE "parsed"
  /\ pc' = "done"
  /\ UNCHANGED <<params, loopVars, toolVars, execVars>>

NextParse == ParseText

SpecParse == InitParse /\ [][NextParse]_vars

(***************************************************************************)
(* Vocabulary of the properties.                                           *)
(***************************************************************************)
HasPlan == result.type = "object" /\ "commands" \in DOMAIN result.val

PlanCommands == IF HasPlan THEN result.val.commands ELSE <<>>

AllSafe(commands) == \A j \in 1..Len(commands) : commands[j] \notin DenyList

\* the plan itself says that no confirmation is needed
Waived ==
  /\ HasPlan
  /\ "requires_confirmation" \in DOMAIN result.val
  /\ result.val.requires_confirmation = FALSE

YesAnswers == {"y", "Y"}

Vectors(commands) ==
  [j \in 1..Len(commands) |-> <<"/bin/bash", "-c", commands[j]>>]

AssistantTurns ==
  {j \in 1..Len(conversation_history) : conversation_history[j].role = "assistant"}

\* every model call of the run so far was answered, and answered with tool calls
AllRoundsCarryToolCalls ==
  /\ llm_errors = 0
  /\ AssistantTurns # {}
  /\ \A j \in AssistantTurns : conversation_history[j].tool_calls # <<>>

\* the plan went through the safety loop and the confirmation
PastTheGate ==
  \/ pc = "run"
  \/ pc = "done" /\ rendered /\ status \notin {"dry_run", "rejected", "cancelled"}

\* a request for a registered tool, with well-formed arguments, that raises
RaisingCall(tool_call) ==
  /\ tool_call.name \in TOOL_FUNCTIONS
  /\ tool_call.arguments.type = "object"
  /\ tool_call.arguments.val.path = "/missing"

ErrorTurn(tool_call) ==
  [role |-> "tool", tool_call_id |-> tool_call.id, name |-> tool_call.name,
   content |-> [kind |-> "text",
                body |-> [type |-> "object",
                          val |-> [error |-> "No such file or directory"]]]]

(***************************************************************************)
(* Properties.                                                             *)
(***************************************************************************)

\* C1 (as stated): a command reaches subprocess.run only if every command of
\* the plan is safe and, unless auto_confirm is true, the user answered the
\* prompt of this run affirmatively.
C1_ConsentUnlessAutoConfirm ==
  executed # <<>> =>
    /\ AllSafe(PlanCommands)
    /\ auto_confirm \/ (prompts > 0 /\ answer \in YesAnswers)

\* C1 (amended): a command reaches subprocess.run only if every command of
\* the plan went through validate_command_safety and was classified safe
\* and, unless auto_confirm is true or the plan carries
\* requires_confirmation = false, the user answered the prompt of this run
\* affirmatively.
C1_ConsentUnlessAutoConfirmOrWaived ==
  executed # <<>> =>
    /\ AllSafe(PlanCommands)
    /\ validator_calls = Len(PlanCommands)
    /\ auto_confirm \/ Waived \/ (prompts = 1 /\ answer \in YesAnswers)

C1_Witness ==
  /\ executed # <<>>
  /\ ~auto_confirm
  /\ ~Waived
  /\ prompts = 1
  /\ answer = "Y"
  /\ Len(PlanCommands) = 2

\* C2: with dry_run false, a plan holding an unsafe command at any position
\* is rejected as a whole: nothing is executed, not even the safe commands
\* that precede the unsafe one.
C2_FailClosed ==
  (~dry_run /\ HasPlan /\ ~AllSafe(PlanCommands)) =>
    /\ executed = <<>>
    /\ pc \notin {"confirm", "run"}
    /\ pc = "done" => status = "rejected"

C2_Witness ==
  /\ ~dry_run
  /\ pc = "done"
  /\ status = "rejected"
  /\ PlanCommands = <<"ls -la", "rm -rf /", "df -h">>
  /\ executed = <<>>

\* C3: a run makes at most 10 model calls, and a run in which every response
\* carries tool calls ends after the 10th round with "maximum iterations
\* reached", without an exception and without executing a command.
C3_IterationBound ==
  /\ llm_calls <= 10
  /\ (pc = "done" /\ AllRoundsCarryToolCalls) =>
       /\ status = "max_iterations"
       /\ llm_calls = 10
       /\ executed = <<>>

\* C4: when the loop is back at the model call after a tool round, the turns
\* that follow the last assistant turn are exactly one tool-result turn per
\* tool call request of that turn, under the request's correlation id.
C4_RequestResponsePairing ==
  (pc = "chat" /\ AssistantTurns # {}) =>
    LET a == CHOOSE j \in AssistantTurns : \A h \in AssistantTurns : h <= j
        requests == conversation_history[a].tool_calls
        results == SubSeq(conversation_history, a + 1, Len(conversation_history))
    IN  /\ Len(results) = Len(requests)
        /\ \A j \in 1..Len(results) :
             /\ results[j].role = "tool"
             /\ results[j].tool_call_id = requests[j].id

\* C5: with dry_run true, whatever the plan and auto_confirm, the plan is
\* printed and the run ends there: the validator is never called, no prompt
\* is shown and nothing is executed.
C5_DryRunExecutesNothing ==
  dry_run =>
    /\ validator_calls = 0
    /\ prompts = 0
    /\ executed = <<>>
    /\ pc \notin {"confirm", "run"}
    /\ (pc = "done" /\ HasPlan) => (rendered /\ status = "dry_run")

C5_Witness ==
  /\ dry_run
  /\ ~auto_confirm
  /\ status = "dry_run"
  /\ rendered
  /\ ~AllSafe(PlanCommands)
  /\ "requires_confirmation" \notin DOMAIN result.val

\* C6: with dry_run and auto_confirm false, all commands safe and a plan that
\* requires confirmation (the default when the field is absent), the user is
\* prompted, and any answer but the affirmative one cancels the plan with
\* nothing executed.
C6_DeclinedCancelsEverything ==
  ( /\ ~dry_run /\ ~auto_confirm
    /\ HasPlan /\ AllSafe(PlanCommands) /\ ~Waived
    /\ pc = "run" \/ (pc = "done" /\ rendered) ) =>
    /\ prompts = 1
    /\ answer \in Answers
    /\ answer \notin YesAnswers =>
         (pc = "done" /\ status = "cancelled" /\ executed = <<>>)

C6_Witness ==
  /\ ~dry_run /\ ~auto_confirm
  /\ HasPlan /\ AllSafe(PlanCommands) /\ Len(PlanCommands) = 2
  /\ "requires_confirmation" \notin DOMAIN result.val
  /\ prompts = 1
  /\ answer = "yes"
  /\ status = "cancelled"

\* C7: with auto_confirm true, dry_run false and requires_confirmation = true
\* in the plan, no prompt is shown and, the commands being safe, every
\* command of the plan is executed.
C7_AutoConfirmSkipsPrompt ==
  ( /\ auto_confirm /\ ~dry_run
    /\ HasPlan
    /\ "requires_confirmation" \in DOMAIN result.val
    /\ result.val.requires_confirmation = TRUE ) =>
    /\ prompts = 0
    /\ (AllSafe(PlanCommands) /\ pc = "done") =>
         (status = "executed" /\ executed = Vectors(PlanCommands))

C7_Witness ==
  /\ auto_confirm /\ ~dry_run
  /\ HasPlan
  /\ "requires_confirmation" \in DOMAIN result.val
  /\ result.val.requires_confirmation = TRUE
  /\ status = "executed"
  /\ prompts = 0
  /\ Len(executed) = 3

\* C8: past the safety loop and the confirmation, the commands are attempted
\* one by one in plan order, each exactly once and each with a printed
\* outcome; a non-zero exit, a timeout or another exception at one command
\* never keeps the later ones from being attempted.
C8_IndependentOutcomes ==
  PastTheGate =>
    LET n == Len(executed)
    IN  /\ n <= Len(PlanCommands)
        /\ executed = Vectors(SubSeq(PlanCommands, 1, n))
        /\ Len(reports) = n
        /\ pc = "run" => (n = i - 1 /\ i <= Len(PlanCommands))
        /\ pc = "done" => (status = "executed" /\ n = Len(PlanCommands))

C8_Witness ==
  /\ pc = "done"
  /\ status = "executed"
  /\ reports = <<"exit code", "timed out", "error">>
  /\ executed = Vectors(<<"df -h", "ls -la", "df -h">>)

\* C9: a model call that raises ends the run at once with the error
\* reported: it is the last model call, no tool is dispatched in its round,
\* the history holds no turn of it, and no command is executed.
C9_TransportFailureIsFatal ==
  llm_errors > 0 =>
    /\ pc = "done"
    /\ status = "llm_error"
    /\ llm_errors = 1
    /\ llm_calls = iteration
    /\ Cardinality(AssistantTurns) = llm_calls - 1
    /\ \A j \in 1..Len(tool_runs) : tool_runs[j][1] < iteration
    /\ \A j \in 1..Len(unknown_reports) : unknown_reports[j][1] < iteration
    /\ ~rendered
    /\ executed = <<>>

C9_Witness ==
  /\ llm_errors = 1
  /\ status = "llm_error"
  /\ iteration = 3
  /\ Len(tool_runs) = 4

\* C10: when a registered tool raises, the exception stays inside
\* _handle_tool_calls: an error tool-result turn is appended for the request
\* and control moves on, to the next tool call of the response or, after the
\* last one, back to the loop for the next round.
C10_ToolFailureIsRecovered ==
  [][ (pc = "tools" /\ RaisingCall(message.tool_calls[k])) =>
        /\ status' = "running"
        /\ conversation_history' =
             Append(conversation_history, ErrorTurn(message.tool_calls[k]))
        /\ IF k < Len(message.tool_calls)
             THEN pc' = "tools" /\ k' = k + 1
             ELSE pc' = "chat" ]_vars

C10_Witness ==
  /\ iteration = 2
  /\ pc = "tools"
  /\ k = 2
  /\ RaisingCall(message.tool_calls[1])
  /\ conversation_history[Len(conversation_history)] = ErrorTurn(message.tool_calls[1])

\* a request whose name is not in the registry
UnknownCall(tool_call) == tool_call.name \notin TOOL_FUNCTIONS

\* C11: a tool call request that names a tool outside the registry is
\* reported as unknown, no tool function is invoked for it, and control
\* moves on: to the next tool call of the response or, after the last one,
\* back to the loop for the next model round; the run does not terminate.
C11_UnknownToolIsNotFatal ==
  [][ (pc = "tools" /\ UnknownCall(message.tool_calls[k])) =>
        /\ status' = "running"
        /\ unknown_reports' = Append(unknown_reports, message.tool_calls[k].id)
        /\ tool_runs' = tool_runs
        /\ IF k < Len(message.tool_calls)
             THEN pc' = "tools" /\ k' = k + 1
             ELSE pc' = "chat" ]_vars

\* the text that was handed to the parser
ParsedText == message.content.body

\* a text that is one JSON value, surrounded by nothing but whitespace
IsJson(chunks) ==
  \E j \in 1..Len(chunks) :
    /\ chunks[j].type \in {"object", "list", "string", "number"}
    /\ \A m \in 1..Len(chunks) : m # j => chunks[m].type = "space"

ValueOf(chunks) ==
  chunks[CHOOSE j \in 1..Len(chunks) : chunks[j].type # "space"]

\* C12: the parser never raises: for a text whose selected candidate is not
\* valid structured data _parse_llm_response returns None, and its caller
\* goes on.
C12_ParserNeverRaises ==
  pc = "done" =>
    /\ status = "parsed"
    /\ result.type \in {"none", "object"}
    /\ ~IsJson(Candidate(ParsedText)) => result = None

C12_Witness ==
  /\ pc = "done"
  /\ ParsedText = <<Malformed, FenceJson, Space, Malformed, Space>>
  /\ result = None

FenceIdx(chunks) == {j \in 1..Len(chunks) : chunks[j].type = "fence"}

\* the fenced blocks of a text, fences pairing up in order of appearance: the
\* opening fence of each block with what the block holds
Blocks(chunks) ==
  LET Rank(j) == Cardinality({m \in FenceIdx(chunks) : m <= j})
  IN  { [opener |-> chunks[j], body |-> SubSeq(chunks, j + 1, m - 1)] :
          <<j, m>> \in { p \in FenceIdx(chunks) \X FenceIdx(chunks) :
                          /\ Rank(p[1]) % 2 = 1
                          /\ Rank(p[2]) = Rank(p[1]) + 1
                          /\ chunks[p[2]] = Fence } }

\* C13: the parser looks at a fenced block labelled json first, falls back
\* to any fenced block, and falls back to the whole text: when the labelled
\* stage produces no plan, a text that holds a valid plan in an unlabelled
\* fenced block yields such a plan, and a text that is a valid plan as a
\* whole yields that plan.
C13_ParserCandidateOrder ==
  (pc = "done"
     /\ ~(HasMarker(ParsedText, FenceJson) /\ IsJson(Candidate(ParsedText)))) =>
    /\ (\E b \in Blocks(ParsedText) : b.opener = Fence /\ IsJson(b.body)) =>
         (\E b \in Blocks(ParsedText) :
            b.opener = Fence /\ IsJson(b.body) /\ result = ValueOf(b.body))
    /\ IsJson(ParsedText) => result = ValueOf(ParsedText)

\* the last response of the model is a final one that carries text
TextualFinal ==
  /\ pc # "chat"
  /\ message.tool_calls = <<>>
  /\ HasContent(message.content)

\* C14: a final response with text always ends the run normally: whatever
\* the text parses to, the run ends in that round without an exception
\* leaving execute_quick_task, either by going through the plan or by
\* showing the text as an answer with no command executed.
C14_TextualFinalEndsNormally ==
  TextualFinal =>
    /\ status # "raised"
    /\ status = "answered" => (pc = "done" /\ executed = <<>> /\ ~rendered)

IsUserTurn(turn) == turn.role = "user"

\* the message that round j is to carry
RoundMessage(j) == IF j = 1 THEN [kind |-> "context"] ELSE [kind |-> "continue"]

\* C15: within one run, round 1 sends the task description with the
\* platform context and every later round sends the fixed continuation
\* prompt: the task is never sent again, neither to LLMClient.chat nor into
\* the conversation history.
C15_MessagePerRound ==
  /\ Len(sent) = llm_calls
  /\ \A j \in 1..Len(sent) : sent[j] = RoundMessage(j)
  /\ LET users == SelectSeq(conversation_history, IsUserTurn)
     IN  \A j \in 1..Len(users) : users[j].content = RoundMessage(j)

C15_Witness ==
  /\ Len(sent) = 10
  /\ sent[10] = [kind |-> "continue"]
  /\ Len(SelectSeq(conversation_history, IsUserTurn)) = 10
  /\ Len(tool_runs) > 0

\* C17: with dry_run false, the safety loop has gone through the whole plan
\* before the confirmation prompt is shown, so that a plan with an unsafe
\* command is rejected without any prompt, whatever auto_confirm and
\* requires_confirmation are.
C17_ValidationPrecedesConsent ==
  /\ (pc = "confirm" \/ prompts > 0) =>
       (validator_calls = Len(PlanCommands) /\ AllSafe(PlanCommands))
  /\ (~dry_run /\ HasPlan /\ ~AllSafe(PlanCommands)) =>
       /\ prompts = 0
       /\ answer = NoAnswer
       /\ rendered => status = "rejected"

C17_Witness ==
  /\ ~dry_run /\ ~auto_confirm
  /\ HasPlan /\ ~Waived
  /\ PlanCommands = <<"ls -la", "df -h", "rm -rf /">>
  /\ validator_calls = 3
  /\ status = "rejected"
  /\ prompts = 0

\* every model call of the run so far was answered with neither tool calls
\* nor text
OnlyEmptyResponses ==
  /\ llm_calls > 0
  /\ llm_errors = 0
  /\ \A j \in AssistantTurns :
       /\ conversation_history[j].tool_calls = <<>>
       /\ ~HasContent(conversation_history[j].content)

\* C19: a response with no tool calls and no text does not end the run and
\* executes nothing: the loop calls the model again with the continuation
\* prompt, and a run that gets only such responses ends after exactly 10
\* model calls with "maximum iterations reached".
C19_EmptyResponseIsNotTerminal ==
  OnlyEmptyResponses =>
    /\ ~rendered /\ executed = <<>> /\ tool_runs = <<>>
    /\ Cardinality(AssistantTurns) = llm_calls
    /\ pc \in {"chat", "done"}
    /\ pc = "chat" => (status = "running" /\ llm_calls <= max_iterations)
    /\ pc = "done" => (status = "max_iterations" /\ llm_calls = max_iterations)
    /\ \A j \in 2..Len(sent) : sent[j] = Continue

C19_Witness ==
  /\ OnlyEmptyResponses
  /\ pc = "done"
  /\ status = "max_iterations"
  /\ Len(conversation_history) = 20

IsPrefix(s, t) == Len(s) <= Len(t) /\ SubSeq(t, 1, Len(s)) = s

\* C16: during a run the conversation history only grows at its end: a
\* step of the run leaves every existing turn where and as it was; the
\* history becomes empty only through reset_conversation, between runs.
C16_AppendOnlyHistory ==
  [][ /\ pc # "done" => IsPrefix(conversation_history, conversation_history')
      /\ (conversation_history # <<>> /\ conversation_history' = <<>>) =>
           (pc = "done" /\ pc' = "chat" /\ iteration' = 0) ]_vars

C16_Witness ==
  /\ pc = "tools"
  /\ iteration = 3
  /\ k = 2
  /\ Len(conversation_history) = 9
  /\ conversation_history[9].role = "tool"

\* the last response of the model carries tool calls and text, the text
\* being a plan
CallsAndText ==
  /\ message.tool_calls # <<>>
  /\ HasContent(message.content)
  /\ PlanTest(_parse_llm_response(message.content)) = "plan"

\* C18: when a response carries both tool calls and text, only the tool
\* calls are dispatched: the text is not parsed, no plan is rendered or
\* executed in that round, and the loop goes on to the next round.
C18_ToolCallsTakePriority ==
  CallsAndText =>
    /\ result = None
    /\ ~rendered /\ executed = <<>>
    /\ pc \in {"tools", "chat"} \/ (pc = "done" /\ status \in {"llm_error", "max_iterations"})

\* C20: one model call that succeeds appends exactly two turns to the
\* history, the user message and then the assistant reply; one whose
\* backend call raises leaves the history as it was.
C20_HistoryEffectOfChat ==
  [][ llm_calls' = llm_calls + 1 =>
        IF llm_errors' = llm_errors
          THEN conversation_history' =
                 conversation_history \o
                   << [role |-> "user", content |-> sent'[Len(sent')]],
                      [role |-> "assistant", content |-> message'.content,
                       tool_calls |-> message'.tool_calls] >>
          ELSE conversation_history' = conversation_history ]_vars

C20_Witness ==
  /\ llm_calls = 3
  /\ llm_errors = 1
  /\ Len(conversation_history) = 6
  /\ conversation_history[6].role = "tool"

====
